---- MODULE Spec2Model ----
(***************************************************************************)
(* Route optimization engine of agentic_dog_walker:                        *)
(*   src/src/dog_walker/tools/route_optimizer.py                           *)
(*                                                                         *)
(* One invocation of optimize_dog_walking_route is one action (Call): it   *)
(* parses the input string, obtains the distance matrix (remote service or *)
(* haversine fallback), solves the closed tour and assembles the result.   *)
(* A second specification (SpecConcurrent) runs several invocations at     *)
(* once, each statement group of the function a step of its own.           *)
(* Its collaborators have specifications of their own over the same        *)
(* variables: map creation (SpecMap, tools/mapping.py), geocoding          *)
(* (SpecGeocode, tools/geocoding.py) and the agent session (SpecAgent,     *)
(* agent.py).                                                              *)
(* JSON documents are records; an optional key is a sequence of length 0   *)
(* (key absent) or 1 (key present).  Node indices are 0-based as in the    *)
(* code; TLA+ sequences are 1-based, so node v sits at position v + 1.     *)
(***************************************************************************)
EXTENDS Integers, Sequences, FiniteSets, TLC

VARIABLES apiKey, pc, route_data, service, out, trace, frames,
          now, saves, map_pc, map_in, map_out,
          geo_pc, geo_in, geo_answers, geo_out,
          current_result, exported, agent_ret, history, before

\* the variables of the route engine and those of its collaborators
engineVars == <<pc, route_data, service, out, trace, frames>>

mapVars == <<now, saves, map_pc, map_in, map_out>>

geoVars == <<geo_pc, geo_in, geo_answers, geo_out>>

\* history and before are bookkeeping: the calls made so far, and the
\* session as it was when the last call began
agentVars == <<current_result, exported, agent_ret, history, before>>

beyondEngine == <<mapVars, geoVars, agentVars>>

beyondMap == <<engineVars, geoVars, agentVars>>

beyondGeocode == <<engineVars, mapVars, agentVars>>

beyondAgent == <<engineVars, mapVars, geoVars>>

vars == <<apiKey, engineVars, mapVars, geoVars, agentVars>>

(***************************************************************************)
(* Bounds of the model.                                                    *)
(***************************************************************************)
MaxStops == 3

\* stops per request when several invocations run at once
MaxConcurrentStops == 2

\* records in a locations_for_map list handed to create_route_map
MaxMapStops == 3

\* clock ticks (half seconds) that pass while maps are created
MaxTicks == 2

\* addresses in one list handed to geocode_addresses
MaxAddresses == 2

\* method calls made on one DogWalkerAgent
MaxCalls == 3

(***************************************************************************)
(* Generic helpers.                                                        *)
(***************************************************************************)
Range(s) == {s[k] : k \in 1..Len(s)}

Max(a, b) == IF a >= b THEN a ELSE b

Min(a, b) == IF a <= b THEN a ELSE b

\* dict.get(key, default) on an optional key
Get(opt, default) == IF Len(opt) = 0 THEN default ELSE opt[1]

RECURSIVE SumSeq(_)
SumSeq(s) == IF Len(s) = 0 THEN 0 ELSE s[1] + SumSeq(Tail(s))

\* Python round(): nearest, ties to even, of num/den (num >= 0, den > 0)
RoundHalfEven(num, den) ==
    LET q == num \div den
        r == num % den
    IN  IF 2 * r < den THEN q
        ELSE IF 2 * r > den THEN q + 1
        ELSE IF q % 2 = 0 THEN q ELSE q + 1

(***************************************************************************)
(* Coordinates.  A coordinate is <<lat, lon>> in 1e-4 degrees.  The first  *)
(* three are the coordinates of tests/test_route_optimizer.py, the fourth  *)
(* lies about 27 km west of them.                                          *)
(***************************************************************************)
Coords == << <<418781, -876298>>, <<418969, -876232>>,
             <<419214, -876551>>, <<418500, -879500>> >>

\* int(calculate_distance(c1, c2) * 1000) for the coordinates above, as the
\* code computes it (haversine, R = 6371 km, truncated to whole metres)
HaversineTable ==
    << <<    0,  2160,  5250, 26699>>,
       << 2160,     0,  3793, 27556>>,
       << 5250,  3793,     0, 25671>>,
       <<26699, 27556, 25671,     0>> >>

PointOf(c) == CHOOSE p \in 1..Len(Coords) : Coords[p] = c

calculate_distance_m(c1, c2) == HaversineTable[PointOf(c1)][PointOf(c2)]

(***************************************************************************)
(* Inputs.  route_data is the input string: wrap tells what surrounds the  *)
(* JSON text, doc is the JSON document (kind "notjson" is text that is not *)
(* JSON at all, "nokeys" an object with neither visits nor coordinates).   *)
(***************************************************************************)
Visit(name, addr, coord, dur, tw) ==
    [pet_name |-> name, address |-> addr, coordinates |-> coord,
     duration |-> dur, time_window |-> tw]

\* the stops requests are built from
StopCatalogue ==
    { Visit(<<"Max">>,     <<"12 Elm St">>, Coords[1], <<20>>, <<>>),
      Visit(<<>>,          <<>>,            Coords[2], <<>>,   <<>>),
      Visit(<<"Charlie">>, <<>>,            Coords[3], <<25>>, << <<1, 2>> >>),
      Visit(<<"Bella">>,   <<"9 Oak Ave">>, Coords[2], <<20>>, << <<0, 0>> >>),
      Visit(<<"Rex">>,     <<>>,            Coords[4], <<>>,   <<>>),
      Visit(<<"Luna">>,    <<"3 Pine Rd">>, Coords[1], <<15>>, << <<13, 14>> >>) }

StopLists == UNION {[1..n -> StopCatalogue] : n \in 0..MaxStops}

Doc(kind, visits, coordinates, time_windows, durations, addresses) ==
    [kind |-> kind, visits |-> visits, coordinates |-> coordinates,
     time_windows |-> time_windows, durations |-> durations,
     addresses |-> addresses]

VisitsDoc(stops) == Doc("visits", stops, <<>>, <<>>, <<>>, <<>>)

\* The legacy flat shape of the same stops: parallel sequences.  A key is left
\* out when no stop gives the field (time_windows is also written out in full
\* when listed), a stop without the field takes the documented default.
LegacyDoc(stops, listed) ==
    LET n == Len(stops)
        tws == [k \in 1..n |-> Get(stops[k].time_window, <<>>)]
        durs == [k \in 1..n |-> Get(stops[k].duration, 30)]
        addrs == [k \in 1..n |-> Get(stops[k].address, "")]
    IN  Doc("legacy", <<>>,
            [k \in 1..n |-> stops[k].coordinates],
            IF listed \/ \E k \in 1..n : Len(stops[k].time_window) = 1
                THEN <<tws>> ELSE <<>>,
            IF \E k \in 1..n : Len(stops[k].duration) = 1
                THEN <<durs>> ELSE <<>>,
            IF \E k \in 1..n : Len(stops[k].address) = 1
                THEN <<addrs>> ELSE <<>>)

NotJson == Doc("notjson", <<>>, <<>>, <<>>, <<>>, <<>>)

NoKeys == Doc("nokeys", <<>>, <<>>, <<>>, <<>>, <<>>)

Docs ==
    {NotJson, NoKeys}
    \cup {VisitsDoc(s) : s \in StopLists}
    \cup {LegacyDoc(s, l) : s \in StopLists, l \in BOOLEAN}

Wraps == {"none", "backticks"}

Inputs == [wrap : Wraps, doc : Docs]

(***************************************************************************)
(* The remote walking-distance service.  A response is an error of some    *)
(* kind or a body; an "ok" body carries the street distances for the       *)
(* locations sent, in tenths of a metre: the geodesic distance stretched   *)
(* by a detour factor (per mille), plus a one-way penalty (metres) in the  *)
(* backward direction, so the matrix may be asymmetric.  An "ok_short"     *)
(* body is a 200 answer whose matrix lacks the last location: one row and  *)
(* one column fewer than locations were sent.                              *)
(***************************************************************************)
ServiceFailures ==
    {"network_error", "timeout", "http_error", "no_distances", "null_entry"}

Detours == {1000, 1337}

OneWays == {0, 400}

Response(kind, detour, oneway) ==
    [kind |-> kind, detour |-> detour, oneway |-> oneway]

Responses ==
    {Response("ok", d, o) : d \in Detours, o \in OneWays}
    \cup {Response("ok_short", 1000, 0)}
    \cup {Response(k, 1000, 0) : k \in ServiceFailures}
    \cup {Response("null_entry", 1337, 0)}

NotAsked == Response("not_asked", 1000, 0)

ServiceDistances(resp, coordinates) ==
    LET n == IF resp.kind = "ok_short"
                THEN Max(0, Len(coordinates) - 1) ELSE Len(coordinates)
    IN  [i \in 1..n |-> [j \in 1..n |->
            IF i = j THEN 0
            ELSE (calculate_distance_m(coordinates[i], coordinates[j])
                    * resp.detour) \div 100
                 + (IF i > j /\ coordinates[i] # coordinates[j]
                        THEN resp.oneway * 10 ELSE 0)]]

\* f"Pet {k}"
PetLabel(k) ==
    <<"Pet 1", "Pet 2", "Pet 3", "Pet 4", "Pet 5", "Pet 6", "Pet 7", "Pet 8">>[k]

\* int(d) of a non-negative distance given in tenths
PyInt(tenths) == tenths \div 10

(***************************************************************************)
(* get_walking_distance_matrix.  The result tells whether the call raised, *)
(* whether the service was contacted, whether the fallback warning was     *)
(* printed, and the matrix returned.                                       *)
(***************************************************************************)
\* the fallback loop filling only the entries above the diagonal
HaversineMatrix_UpperOnly(coordinates) ==
    LET n == Len(coordinates)
    IN  [i \in 1..n |-> [j \in 1..n |->
            IF i < j
                THEN calculate_distance_m(coordinates[i], coordinates[j])
                ELSE 0]]

\* the except branch: an n x n matrix of zeros, every off-diagonal entry
\* then set to the truncated haversine distance in metres
HaversineMatrix(coordinates) ==
    LET n == Len(coordinates)
    IN  [i \in 1..n |-> [j \in 1..n |->
            IF i # j
                THEN calculate_distance_m(coordinates[i], coordinates[j])
                ELSE 0]]

\* the try block: post, raise_for_status, json, data["distances"], int(d)
RequestRaises(resp) == resp.kind \in ServiceFailures

\* the rows of data["distances"] appended to distance_matrix before the try
\* block raised: a null entry sits in the last row, so the rows before it
\* were converted; every other failure raises before the first row
ParsedRows(resp, coordinates) ==
    IF resp.kind = "null_entry"
        THEN LET d == ServiceDistances(resp, coordinates)
             IN  [i \in 1..Max(0, Len(d) - 1) |->
                    [j \in 1..Len(d[i]) |-> PyInt(d[i][j])]]
        ELSE <<>>

\* an except branch that fills only the rows the try block did not reach
ExceptBranch_KeepParsed(parsed, coordinates) ==
    [i \in 1..Len(coordinates) |->
        IF i <= Len(parsed) THEN parsed[i]
        ELSE HaversineMatrix(coordinates)[i]]

\* the except branch binds distance_matrix to a new matrix; what the try
\* block had appended is dropped
ExceptBranch(parsed, coordinates) == HaversineMatrix(coordinates)

get_walking_distance_matrix(key, coordinates, resp) ==
    IF key = ""
        THEN [raised |-> TRUE, posted |-> FALSE, fallback |-> FALSE,
              matrix |-> <<>>]
    ELSE IF RequestRaises(resp)
        THEN [raised |-> FALSE, posted |-> TRUE, fallback |-> TRUE,
              matrix |-> ExceptBranch(ParsedRows(resp, coordinates),
                                      coordinates)]
    ELSE LET d == ServiceDistances(resp, coordinates)
         IN  [raised |-> FALSE, posted |-> TRUE, fallback |-> FALSE,
              matrix |-> [i \in 1..Len(d) |->
                            [j \in 1..Len(d[i]) |-> PyInt(d[i][j])]]]

(***************************************************************************)
(* The routing model and its solve.                                        *)
(***************************************************************************)
SlackMax == 1800

Horizon == 43200

\* distance_callback, on nodes
ArcCost(m, from, to) == m[from + 1][to + 1]

\* the cumul range with every SetRange left out
CumulRange_NoWindows(tw, v) == <<0, Horizon>>

\* SetRange with the window's end left open
CumulRange_LowerOnly(tw, v) ==
    IF v + 1 <= Len(tw) /\ Len(tw[v + 1]) = 2
        THEN <<Max(0, tw[v + 1][1] * 3600), Horizon>>
        ELSE <<0, Horizon>>

\* the range of the Time cumul variable of node v: [0, Horizon], narrowed by
\* SetRange when time_windows holds a two-element window for v
CumulRange(tw, v) ==
    IF v + 1 <= Len(tw) /\ Len(tw[v + 1]) = 2
        THEN <<Max(0, tw[v + 1][1] * 3600), Min(Horizon, tw[v + 1][2] * 3600)>>
        ELSE <<0, Horizon>>

\* cost of the closed route (depot first, return arc included)
RECURSIVE RouteCost(_, _, _)
RouteCost(m, route, k) ==
    IF k = Len(route) THEN ArcCost(m, route[k], 0)
    ELSE ArcCost(m, route[k], route[k + 1]) + RouteCost(m, route, k + 1)

\* With the Time dimension: cumul(next) = cumul(prev) + transit + slack,
\* 0 <= slack <= SlackMax, every cumul within its range, the end of the
\* route within [0, Horizon].  <<lo, hi>> is the set of cumuls possible at
\* position k.
RECURSIVE TimeFeasibleFrom(_, _, _, _, _, _)
TimeFeasibleFrom(m, tw, route, k, lo, hi) ==
    IF lo > hi THEN FALSE
    ELSE IF k = Len(route) THEN lo + ArcCost(m, route[k], 0) <= Horizon
    ELSE LET d == ArcCost(m, route[k], route[k + 1])
             r == CumulRange(tw, route[k + 1])
         IN  TimeFeasibleFrom(m, tw, route, k + 1,
                              Max(lo + d, r[1]), Min(hi + d + SlackMax, r[2]))

Feasible(m, tw, dim, route) ==
    \/ ~dim
    \/ TimeFeasibleFrom(m, tw, route, 1,
                        CumulRange(tw, 0)[1], CumulRange(tw, 0)[2])

\* FirstSolutionStrategy.PATH_CHEAPEST_ARC: extend the path from its last
\* node by the cheapest arc to an unvisited node (lowest index on ties),
\* backtracking to the next cheapest when the extension cannot be completed.
\* <<>> stands for "no solution".
RECURSIVE PathCheapestArc(_, _, _, _, _)
RECURSIVE TryArcs(_, _, _, _, _, _)
PathCheapestArc(m, n, tw, dim, path) ==
    IF Len(path) = n
        THEN IF Feasible(m, tw, dim, path) THEN path ELSE <<>>
        ELSE TryArcs(m, n, tw, dim, path, {})

TryArcs(m, n, tw, dim, path, tried) ==
    LET last == path[Len(path)]
        cand == ((0..(n - 1)) \ Range(path)) \ tried
    IN  IF cand = {} THEN <<>>
        ELSE LET best == CHOOSE c \in cand : \A c2 \in cand :
                            \/ ArcCost(m, last, c) < ArcCost(m, last, c2)
                            \/ /\ ArcCost(m, last, c) = ArcCost(m, last, c2)
                               /\ c <= c2
                 r == PathCheapestArc(m, n, tw, dim, Append(path, best))
             IN  IF r # <<>> THEN r
                 ELSE TryArcs(m, n, tw, dim, path, tried \cup {best})

\* local search neighbours of a route: two stops exchanged, or one relocated
Exchange(route, a, b) ==
    [k \in 1..Len(route) |->
        IF k = a THEN route[b] ELSE IF k = b THEN route[a] ELSE route[k]]

Relocate(route, a, b) ==
    [k \in 1..Len(route) |->
        IF a < b
            THEN (IF k < a \/ k > b THEN route[k]
                  ELSE IF k = b THEN route[a] ELSE route[k + 1])
            ELSE (IF k < b \/ k > a THEN route[k]
                  ELSE IF k = b THEN route[a] ELSE route[k - 1])]

Neighbours(route) ==
    {Exchange(route, a, b) : a, b \in 2..Len(route)}
    \cup {Relocate(route, a, b) : a, b \in 2..Len(route)}

\* the default local search (greedy descent): accept cost-reducing feasible
\* neighbours until none is left
RECURSIVE GreedyDescent(_, _, _, _)
GreedyDescent(m, tw, dim, route) ==
    LET better == {t \in Neighbours(route) :
                      /\ RouteCost(m, t, 1) < RouteCost(m, route, 1)
                      /\ Feasible(m, tw, dim, t)}
    IN  IF better = {} THEN route
        ELSE GreedyDescent(m, tw, dim,
                CHOOSE t \in better : \A u \in better :
                    RouteCost(m, t, 1) <= RouteCost(m, u, 1))

\* routing.SolveWithParameters: the route of the solution, <<>> when None
SolveWithParameters(m, n, tw, dim) ==
    LET first == PathCheapestArc(m, n, tw, dim, <<0>>)
    IN  IF first = <<>> THEN <<>> ELSE GreedyDescent(m, tw, dim, first)

(***************************************************************************)
(* optimize_dog_walking_route.  What a call returns (out) and what it did  *)
(* on the way (trace).  out.kind is "structured" (the JSON payload),       *)
(* "no_solution" ('No solution found'), "failed" ('Route optimization      *)
(* failed: <reason>') or "crashed" (the call did not return).  Times are   *)
(* kept exact: walking minutes in tenths, hours in hundredths.             *)
(***************************************************************************)
\* uses_real_streets is the literal True of the payload; a message has no
\* such field (FALSE stands for its absence)
Output(kind, reason, seq, visits, locs, total, hours, walking, visit) ==
    [kind |-> kind, reason |-> reason, optimized_sequence |-> seq,
     visit_order |-> visits, locations_for_map |-> locs,
     total_distance_meters |-> total, estimated_time_hours_x100 |-> hours,
     walking_time_minutes_x10 |-> walking, visit_time_minutes |-> visit,
     uses_real_streets |-> kind = "structured"]

Message(kind, reason) == Output(kind, reason, <<>>, <<>>, <<>>, 0, 0, 0, 0)

Trace(posted, fallback, solved, dim, coordinates, matrix) ==
    [posted |-> posted, fallback |-> fallback, solved |-> solved,
     time_dimension |-> dim, coordinates |-> coordinates,
     distance_matrix |-> matrix]

NoTrace == Trace(FALSE, FALSE, FALSE, FALSE, <<>>, <<>>)

Run(o, t) == [out |-> o, trace |-> t]

\* json.loads(route_data): the text must be exactly one JSON document
JsonLoads(rd) ==
    IF rd.wrap = "none" /\ rd.doc.kind # "notjson"
        THEN [ok |-> TRUE, data |-> rd.doc]
        ELSE [ok |-> FALSE, data |-> NotJson]

\* "visits" in data
HasVisits(data) == data.kind = "visits"

\* data["coordinates"] finds the key (no KeyError)
HasCoordinates_Lenient(data) == TRUE

HasCoordinates(data) == data.kind = "legacy"

\* the parallel lists both input shapes are read into; ok is FALSE on the
\* KeyError of data["coordinates"].  Every visit of the model carries its
\* coordinates, so the [0, 0] default of the visits shape is never taken.
ReadStops(data) ==
    IF HasVisits(data)
        THEN LET v == data.visits
                 n == Len(v)
             IN  [ok |-> TRUE,
                  coordinates |-> [k \in 1..n |-> v[k].coordinates],
                  durations |-> [k \in 1..n |-> Get(v[k].duration, 30)],
                  time_windows |-> [k \in 1..n |-> Get(v[k].time_window, <<>>)],
                  pet_names |-> [k \in 1..n |->
                                    Get(v[k].pet_name, PetLabel(k))],
                  addresses |-> [k \in 1..n |-> Get(v[k].address, "Unknown")]]
        ELSE LET n == Len(data.coordinates)
             IN  [ok |-> HasCoordinates(data),
                  coordinates |-> data.coordinates,
                  durations |-> Get(data.durations, [k \in 1..n |-> 30]),
                  time_windows |-> Get(data.time_windows, <<>>),
                  pet_names |-> [k \in 1..n |-> PetLabel(k)],
                  addresses |-> Get(data.addresses,
                                    [k \in 1..n |-> "Unknown"])]

\* the address as stored, placeholder included
ShownAddress_Raw(a) == a

\* addresses[idx] if addresses[idx] != "Unknown" else ""
ShownAddress(a) == IF a # "Unknown" THEN a ELSE ""

\* route_sequence.append(route_sequence[0])
CloseCircuit_Open(route) == route

CloseCircuit(route) == Append(route, route[1])

\* total_distance, summed over the successor chain from Start to End
TotalDistance_NoReturnLeg(m, route) ==
    RouteCost(m, route, 1) - ArcCost(m, route[Len(route)], 0)

TotalDistance(m, route) == RouteCost(m, route, 1)

\* the stops the records are built for, were the records built in input order
VisitedStops_InputOrder(route_sequence) ==
    [k \in 1..(Len(route_sequence) - 1) |-> k - 1]

\* route_sequence[:-1], the tour without the closing repeat of the depot
VisitedStops(route_sequence) ==
    SubSeq(route_sequence, 1, Len(route_sequence) - 1)

\* walking minutes at 83 m/min
walking_time_minutes_x10_Speed83(total_distance) ==
    RoundHalfEven(total_distance * 10, 83)

\* round(total_distance / 83.33, 1), in tenths of a minute
walking_time_minutes_x10(total_distance) ==
    RoundHalfEven(total_distance * 1000, 8333)

\* round((total_distance / 83.33 + sum(durations)) / 60, 2), in hundredths of
\* an hour: (total * 100 / 8333 + visit) / 60 * 100
total_time_hours_x100(total_distance, visit_minutes) ==
    RoundHalfEven((total_distance * 100 + visit_minutes * 8333) * 5, 8333 * 3)

\* the result assembled from the solved route
Assemble(st, m, route) ==
    LET route_sequence == CloseCircuit(route)
        total_distance == TotalDistance(m, route)
        visit_minutes == SumSeq(st.durations)
        order == VisitedStops(route_sequence)
    IN  Output("structured", "",
            route_sequence,
            [k \in 1..Len(order) |->
                [pet_name |-> st.pet_names[order[k] + 1],
                 address |-> ShownAddress(st.addresses[order[k] + 1]),
                 duration_minutes |-> st.durations[order[k] + 1]]],
            [k \in 1..Len(order) |->
                [latitude |-> st.coordinates[order[k] + 1][1],
                 longitude |-> st.coordinates[order[k] + 1][2],
                 pet_name |-> st.pet_names[order[k] + 1],
                 address |-> ShownAddress(st.addresses[order[k] + 1]),
                 duration |-> st.durations[order[k] + 1]]],
            total_distance,
            total_time_hours_x100(total_distance, visit_minutes),
            walking_time_minutes_x10(total_distance),
            visit_minutes)

\* distance_callback raises IndexError for some arc between the n nodes
CallbackRaises(m, n) ==
    \/ Len(m) < n
    \/ \E i \in 1..Len(m) : i <= n /\ Len(m[i]) < n

\* RoutingIndexManager(0, 1, 0) names a depot that is not a node, and an
\* exception raised by distance_callback surfaces inside the native solver:
\* the native library's behaviour is undefined there.  Either the process
\* dies in the library or an error comes back to Python and is caught.
NativeOutcomes == {"crashed", "failed"}

\* every run the call can make for this key, input and service response
optimize_dog_walking_route(key, rd, resp) ==
    LET parsed == JsonLoads(rd)
        st == ReadStops(parsed.data)
        gm == get_walking_distance_matrix(key, st.coordinates, resp)
        n == Len(st.coordinates)
        dim == Len(st.time_windows) > 0
        route == IF CallbackRaises(gm.matrix, n) THEN <<>>
                 ELSE SolveWithParameters(gm.matrix, n, st.time_windows, dim)
    IN  IF ~parsed.ok THEN {Run(Message("failed", "json"), NoTrace)}
        ELSE IF ~st.ok THEN {Run(Message("failed", "coordinates"), NoTrace)}
        ELSE IF gm.raised
            THEN {Run(Message("failed", "api key"),
                      Trace(FALSE, FALSE, FALSE, FALSE, st.coordinates, <<>>))}
        ELSE IF n = 0
            THEN {Run(Message(k, "native"),
                      Trace(gm.posted, gm.fallback, FALSE, FALSE,
                            st.coordinates, gm.matrix)) : k \in NativeOutcomes}
        ELSE IF CallbackRaises(gm.matrix, n)
            THEN {Run(Message(k, "native"),
                      Trace(gm.posted, gm.fallback, TRUE, dim,
                            st.coordinates, gm.matrix)) : k \in NativeOutcomes}
        ELSE IF route = <<>>
            THEN {Run(Message("no_solution", ""),
                      Trace(gm.posted, gm.fallback, TRUE, dim,
                            st.coordinates, gm.matrix))}
        ELSE {Run(Assemble(st, gm.matrix, route),
                  Trace(gm.posted, gm.fallback, TRUE, dim,
                        st.coordinates, gm.matrix))}

(***************************************************************************)
(* create_route_map, src/src/dog_walker/tools/mapping.py.  Its input is a  *)
(* string: wrap tells what surrounds the JSON text ("prefix" is natural-   *)
(* language text before it), doc is the JSON document.  Optional keys are  *)
(* sequences of length 0 or 1, as above.                                   *)
(***************************************************************************)
MapRecord(lat, lon, name, addr, dur) ==
    [latitude |-> lat, longitude |-> lon, pet_name |-> name,
     address |-> addr, duration |-> dur]

\* the records lists are built from
MapCatalogue ==
    { MapRecord(Coords[1][1], Coords[1][2], <<"Max">>, <<"123 Main St">>,
                <<30>>),
      MapRecord(Coords[2][1], Coords[2][2], <<>>, <<>>, <<>>) }

MapLists == UNION {[1..n -> MapCatalogue] : n \in 0..MaxMapStops}

MapDoc(kind, lfm, locations, sequence, center) ==
    [kind |-> kind, locations_for_map |-> lfm, locations |-> locations,
     optimized_sequence |-> sequence, center |-> center]

NotJsonMap == MapDoc("notjson", <<>>, <<>>, <<>>, <<>>)

\* the closed sequence 0, 1, .., n-1, 0 an optimizer result carries
ClosedSequence(n) == [k \in 1..(n + 1) |-> IF k <= n THEN k - 1 ELSE 0]

OneRecord == <<MapRecord(Coords[3][1], Coords[3][2], <<"Charlie">>, <<>>, <<25>>)>>

MapDocs ==
    {NotJsonMap}
    \cup {MapDoc("object", <<l>>, <<>>, <<ClosedSequence(Len(l))>>, <<>>) :
            l \in MapLists}
    \cup {MapDoc("object", <<OneRecord>>, <<>>, <<>>, <<Coords[1]>>),
          MapDoc("object", <<>>, <<>>, <<ClosedSequence(2)>>, <<>>),
          MapDoc("object", <<>>, <<<<>>>>, <<>>, <<>>),
          MapDoc("object", <<>>, <<OneRecord>>, <<ClosedSequence(1)>>, <<>>)}

MapWraps == {"none", "prefix", "backticks"}

\* the directions service answers a segment's request with a route or not
GeometryAnswers == {"route", "error"}

MapInputs == [wrap : MapWraps, doc : MapDocs, geometry : GeometryAnswers]

NoMapInput == [wrap |-> "none", doc |-> NotJsonMap, geometry |-> "error"]

\* get_walking_route_geometry: the street route from start to end (here one
\* that turns a corner), or the straight line without a key or on a failure
get_walking_route_geometry(key, start, end, answer) ==
    IF key = "" THEN <<start, end>>
    ELSE IF answer = "route" THEN <<start, <<start[1], end[2]>>, end>>
    ELSE <<start, end>>

\* json.loads(route_data_str): the text must be exactly one JSON document
JsonLoadsMap(rd) == rd.wrap = "none" /\ rd.doc.kind = "object"

HasLocationsForMap(data) == Len(data.locations_for_map) = 1

\* locations, from locations_for_map or else from locations (default [])
MapLocations(data) ==
    IF HasLocationsForMap(data) THEN data.locations_for_map[1]
    ELSE Get(data.locations, <<>>)

\* route_sequence: list(range(len(locations))) + [0], or None (here <<>>)
MapRouteSequence(data) ==
    IF HasLocationsForMap(data)
        THEN ClosedSequence(Len(data.locations_for_map[1]))
        ELSE <<>>

PointOfRecord(loc) == <<loc.latitude, loc.longitude>>

\* the PolyLines drawn between consecutive entries of ordered_locations
Segments(key, locations, route_sequence, answer) ==
    LET ordered_locations ==
            [k \in 1..Len(route_sequence) |-> locations[route_sequence[k] + 1]]
        last == Len(ordered_locations) - 1
    IN  [i \in 1..last |->
            LET start == PointOfRecord(ordered_locations[i])
                end == PointOfRecord(ordered_locations[i + 1])
                is_return_home ==
                    /\ i = last
                    /\ route_sequence[Len(route_sequence)] = route_sequence[1]
            IN  [start |-> start, end |-> end,
                 is_return_home |-> is_return_home,
                 number |-> i,
                 color |-> IF is_return_home THEN "green" ELSE "blue",
                 route_coords |->
                    get_walking_route_geometry(key, start, end, answer)]]

\* the indices of route_sequence in order of first occurrence
RECURSIVE FirstVisits(_, _, _)
FirstVisits(route_sequence, k, seen) ==
    IF k > Len(route_sequence) THEN <<>>
    ELSE IF route_sequence[k] \in seen
        THEN FirstVisits(route_sequence, k + 1, seen)
        ELSE <<route_sequence[k]>>
             \o FirstVisits(route_sequence, k + 1,
                            seen \cup {route_sequence[k]})

\* marker colours, were every stop coloured like the first
MarkerColor_AllGreen(stop_counter) == "green"

\* color="green" if stop_counter == 1 else "blue"
MarkerColor(stop_counter) == IF stop_counter = 1 THEN "green" ELSE "blue"

\* the numbered markers of a routed map
RouteMarkers(locations, route_sequence) ==
    LET visits == FirstVisits(route_sequence, 1, {})
    IN  [c \in 1..Len(visits) |->
            [location |-> PointOfRecord(locations[visits[c] + 1]),
             stop_number |-> c,
             color |-> MarkerColor(c),
             pet_name |-> Get(locations[visits[c] + 1].pet_name, "")]]

\* the markers of a map without route: "Location k", all blue
PlainMarkers(locations) ==
    [k \in 1..Len(locations) |->
        [location |-> PointOfRecord(locations[k]),
         stop_number |-> k,
         color |-> "blue",
         pet_name |-> ""]]

\* the folium map: its centre and what was added to it
DrawnMap(center, segments, markers) ==
    [center |-> center, segments |-> segments, markers |-> markers]

NoMap == DrawnMap(<<>>, <<>>, <<>>)

\* what the call returns: the text up to the variable part, the path of the
\* file saved (the timestamp that names it) if any, and the map drawn
MapResult(text, path, drawn) == [text |-> text, path |-> path, map |-> drawn]

NoMapResult == MapResult("", <<>>, NoMap)

\* the clock's resolution: ticks in a second
TicksPerSecond == 2

\* route_map_<timestamp>.html: strftime("%Y%m%d_%H%M%S") of the clock, which
\* drops everything below the second
MapPath(clock) == clock \div TicksPerSecond

Timestamps == 0..MaxTicks

create_route_map(key, rd, clock) ==
    LET data == rd.doc
        locations == MapLocations(data)
        route_sequence == MapRouteSequence(data)
        map_center == IF Len(data.center) = 1 THEN data.center[1]
                      ELSE PointOfRecord(locations[1])
    IN  IF ~JsonLoadsMap(rd)
            THEN MapResult("Map creation failed: ", <<>>, NoMap)
        ELSE IF Len(locations) = 0
            THEN MapResult("Error: No locations provided", <<>>, NoMap)
        ELSE MapResult("Map saved to: ", <<MapPath(clock)>>,
                IF Len(route_sequence) > 0
                    THEN DrawnMap(map_center,
                            Segments(key, locations, route_sequence,
                                     rd.geometry),
                            RouteMarkers(locations, route_sequence))
                    ELSE DrawnMap(map_center, <<>>, PlainMarkers(locations)))

(***************************************************************************)
(* geocode_addresses (geocoding.py).  A string is a record: whether it is  *)
(* enclosed in quote characters, what its text is (format) and the address *)
(* strings written in it.  A parsed value or an echoed text is the record  *)
(* without the quoted flag.                                                *)
(***************************************************************************)
Addresses == {"108 N State St, Chicago", "Invalid Address"}

AddressLists == UNION {[1..n -> Addresses] : n \in 0..MaxAddresses}

\* JSON array ["a", ...]; Python list ['a', ...]; Python tuple ('a', 'b');
\* a JSON number; a JSON string "a"; text neither parser accepts
\* ({invalid json}); a Python dict display with a list as key ({['a']: 1})
ListFormats == {"json_list", "python_list"}

AddressesStr(quoted, format, items) ==
    [quoted |-> quoted, format |-> format, items |-> items]

GeoInputs ==
    {AddressesStr(q, f, l) : q \in BOOLEAN, f \in ListFormats,
                             l \in AddressLists}
    \cup {AddressesStr(q, "python_tuple", l) :
              q \in BOOLEAN, l \in {m \in AddressLists : Len(m) = 2}}
    \cup {AddressesStr(q, "json_number", <<>>) : q \in BOOLEAN}
    \cup {AddressesStr(FALSE, "json_string", <<a>>) : a \in Addresses}
    \cup {AddressesStr(q, f, <<>>) :
              q \in BOOLEAN, f \in {"invalid_text", "unhashable_key"}}

NoGeoInput == AddressesStr(FALSE, "invalid_text", <<>>)

Text(format, items) == [format |-> format, items |-> items]

\* a single address string as a value
Str(a) == Text("str", <<a>>)

\* addresses_str.strip().strip("'\"") : the enclosing quotes go, and a JSON
\* string loses its own quotes and is bare text from then on
Strip(s) ==
    IF s.format = "json_string" THEN Text("bare_text", s.items)
    ELSE Text(s.format, s.items)

\* json.loads, then ast.literal_eval on JSONDecodeError (lines 20-26)
\* "value": parsed; "invalid": ValueError or SyntaxError of literal_eval;
\* "raised": another exception of literal_eval, which nothing catches
ParseAddresses(text) ==
    IF text.format \in {"json_list", "json_number"} THEN "value"
    ELSE IF text.format \in {"python_list", "python_tuple"} THEN "value"
    ELSE IF text.format = "unhashable_key" THEN "raised"
    ELSE "invalid"

\* if not isinstance(addresses, list): addresses = [addresses]
AddressValues(text) ==
    IF text.format \in ListFormats
        THEN [i \in 1..Len(text.items) |-> Str(text.items[i])]
        ELSE <<text>>

\* what one request to the search service comes to
GeoAnswers == {"found", "found_unnamed", "empty", "raises"}

GeoFound(address, lat, lon, name) ==
    [address |-> address, latitude |-> <<lat>>, longitude |-> <<lon>>,
     name |-> <<name>>, error |-> <<>>]

GeoError(address, message) ==
    [address |-> address, latitude |-> <<>>, longitude |-> <<>>,
     name |-> <<>>, error |-> <<message>>]

\* the body of the loop, lines 34-56
Lookup(address, answer) ==
    IF answer = "found"
        THEN GeoFound(address, Coords[1][1], Coords[1][2], Str("Chicago, IL"))
    ELSE IF answer = "found_unnamed"
        THEN GeoFound(address, Coords[1][1], Coords[1][2], address)
    ELSE IF answer = "empty" THEN GeoError(address, "Not found")
    ELSE GeoError(address, "API Error")

\* for address in addresses: ... results.append(...)
RECURSIVE GeocodeLoop(_, _, _)
GeocodeLoop(addresses, answers, results) ==
    IF Len(results) = Len(addresses) THEN results
    ELSE LET i == Len(results) + 1
         IN  GeocodeLoop(addresses, answers,
                 Append(results, Lookup(addresses[i], answers[i])))

GeoResult(kind, entries) == [kind |-> kind, entries |-> entries]

NoGeoResult == GeoResult("none", <<>>)

\* the addresses one call looks up, and the answers it may get
RequestedAddresses(s) ==
    IF ParseAddresses(Strip(s)) = "value" THEN AddressValues(Strip(s))
    ELSE <<>>

AnswersFor(s) == [1..Len(RequestedAddresses(s)) -> GeoAnswers]

geocode_addresses(s, answers) ==
    LET addresses_str == Strip(s)
        parsed == ParseAddresses(addresses_str)
    IN  IF parsed = "raised" THEN GeoResult("raised", <<>>)
        ELSE IF parsed = "invalid"
            THEN GeoResult("json",
                     <<GeoError(addresses_str, "Invalid format")>>)
        ELSE GeoResult("json",
                 GeocodeLoop(AddressValues(addresses_str), answers, <<>>))

(***************************************************************************)
(* DogWalkerAgent (agent.py).  Optional[RouteResult] is a sequence of      *)
(* length 0 (None) or 1.  The tools the executor runs are not part of the  *)
(* session state: agent_executor.invoke either returns a response with an  *)
(* "output" text or raises.                                                *)
(***************************************************************************)
Queries == {"walk Max and Bella", "walk Charlie"}

AgentAnswers == {"Route: Max, Bella", "Route: Charlie"}

\* RouteResult(query=query) with agent_output and final_answer set
RouteResult(query, output) ==
    [query |-> query, addresses |-> <<>>, geocoded_locations |-> <<>>,
     weather_assessment |-> "", optimized_route |-> <<>>,
     final_answer |-> output, agent_output |-> output]

None == <<>>

\* agent_executor.invoke({"input": query})
AgentResponse(raised, output) == [raised |-> raised, output |-> output]

AgentResponses ==
    {AgentResponse(TRUE, "")}
    \cup {AgentResponse(FALSE, a) : a \in AgentAnswers}

\* what a method call comes to: op, "returned" or "raised", the value
\* returned (a result, a path) and the message of the exception
AgentReturn(op, kind, result, path, message) ==
    [op |-> op, kind |-> kind, result |-> result, path |-> path,
     message |-> message]

NoAgentReturn == AgentReturn("none", "returned", None, <<>>, "")

\* the session after a call: current_result, the files, the call's outcome
Session(current, files, ret) ==
    [current_result |-> current, exported |-> files, ret |-> ret]

\* plan_route that stores the result before it runs the executor
plan_route_StoreFirst(current, files, query, response) ==
    IF response.raised
        THEN Session(<<RouteResult(query, "")>>, files,
                 AgentReturn("plan_route", "raised", None, <<>>, "invoke"))
        ELSE Session(<<RouteResult(query, response.output)>>, files,
                 AgentReturn("plan_route", "returned",
                     <<RouteResult(query, response.output)>>, <<>>, ""))

plan_route(current, files, query, response) ==
    IF response.raised
        THEN Session(current, files,
                 AgentReturn("plan_route", "raised", None, <<>>, "invoke"))
        ELSE LET result == RouteResult(query, response.output)
             IN  Session(<<result>>, files,
                     AgentReturn("plan_route", "returned", <<result>>,
                                 <<>>, ""))

get_current_result(current, files) ==
    Session(current, files,
        AgentReturn("get_current_result", "returned", current, <<>>, ""))

reset(current, files) ==
    Session(None, files, AgentReturn("reset", "returned", None, <<>>, ""))

\* file names: the one the caller gives, or route_plan_<timestamp>.json
GivenNames == {"my_plan.json"}

FileName(given, stamp) == [given |-> given, stamp |-> stamp]

FileNames ==
    {FileName(<<g>>, <<>>) : g \in GivenNames}
    \cup {FileName(<<>>, <<MapPath(t)>>) : t \in Timestamps}

\* filename arguments of export_result_to_file: None or a name
FilenameArguments == {<<>>} \cup {<<g>> : g \in GivenNames}

\* the document json.dump writes
ExportedDocument(result) ==
    [query |-> result.query, addresses |-> result.addresses,
     geocoded_locations |-> result.geocoded_locations,
     weather_assessment |-> result.weather_assessment,
     optimized_route |-> result.optimized_route,
     final_answer |-> result.final_answer]

NoFiles == [f \in FileNames |-> <<>>]

\* export_result_to_file that writes an empty document when nothing is held
export_result_to_file_EmptyFile(current, files, filename, clock) ==
    LET name == IF Len(filename) = 0
                    THEN FileName(<<>>, <<MapPath(clock)>>)
                    ELSE FileName(filename, <<>>)
        document == IF current = None THEN ExportedDocument(RouteResult("", ""))
                    ELSE ExportedDocument(current[1])
    IN  Session(current, [files EXCEPT ![name] = <<document>>],
            AgentReturn("export_result_to_file", "returned", None,
                        <<name>>, ""))

export_result_to_file(current, files, filename, clock) ==
    IF current = None
        THEN Session(current, files,
                 AgentReturn("export_result_to_file", "raised", None, <<>>,
                             "No result to export"))
        ELSE LET name == IF Len(filename) = 0
                             THEN FileName(<<>>, <<MapPath(clock)>>)
                             ELSE FileName(filename, <<>>)
             IN  Session(current,
                     [files EXCEPT ![name] = <<ExportedDocument(current[1])>>],
                     AgentReturn("export_result_to_file", "returned", None,
                                 <<name>>, ""))

\* one entry of the call history: the method, its argument, and for
\* plan_route what the executor answered
CallEvent(op, query, response, filename) ==
    [op |-> op, query |-> query, response |-> response,
     filename |-> filename]

NoResponse == AgentResponse(FALSE, "")

(***************************************************************************)
(* The state machine.  apiKey is OPENROUTESERVICE_API_KEY, read from the   *)
(* environment once when the module is loaded.                             *)
(***************************************************************************)
NoInput == [wrap |-> "none", doc |-> NotJson]

\* the threads that may be inside optimize_dog_walking_route at once
Workers == {1, 2}

\* The frame of one invocation: where it stands (at), its argument, the
\* answer the service gave to its request, and its local variables (st: the
\* parallel lists, gm: the provider's result, route: the solution) and
\* return value.  overlapped is bookkeeping, not program state: it tells
\* whether the invocation took a step while another one was in flight.
NoMatrix ==
    [raised |-> FALSE, posted |-> FALSE, fallback |-> FALSE, matrix |-> <<>>]

IdleFrame ==
    [at |-> "idle", route_data |-> NoInput, resp |-> NotAsked,
     st |-> ReadStops(NotJson), gm |-> NoMatrix, route |-> <<>>,
     out |-> Message("none", ""), overlapped |-> FALSE]

Init ==
    /\ apiKey \in {"", "secret"}
    /\ pc = "idle"
    /\ route_data = NoInput
    /\ service = NotAsked
    /\ out = Message("none", "")
    /\ trace = NoTrace
    /\ frames = [w \in Workers |-> IdleFrame]
    /\ now = 0
    /\ saves = [stamp \in Timestamps |-> 0]
    /\ map_pc = "idle"
    /\ map_in = NoMapInput
    /\ map_out = NoMapResult
    /\ geo_pc = "idle"
    /\ geo_in = NoGeoInput
    /\ geo_answers = <<>>
    /\ geo_out = NoGeoResult
    /\ current_result = None
    /\ exported = NoFiles
    /\ agent_ret = NoAgentReturn
    /\ history = <<>>
    /\ before = Session(None, NoFiles, NoAgentReturn)

\* one call of optimize_dog_walking_route, from entry to return
Call ==
    /\ pc = "idle"
    /\ \E rd \in Inputs, resp \in Responses :
         \E run \in optimize_dog_walking_route(apiKey, rd, resp) :
            /\ route_data' = rd
            /\ service' = IF run.trace.posted THEN resp ELSE NotAsked
            /\ out' = run.out
            /\ trace' = run.trace
    /\ pc' = "returned"
    /\ UNCHANGED <<apiKey, frames, beyondEngine>>

\* the caller takes the returned string; nothing of the call is kept
Return ==
    /\ pc = "returned"
    /\ pc' = "idle"
    /\ route_data' = NoInput
    /\ service' = NotAsked
    /\ out' = Message("none", "")
    /\ trace' = NoTrace
    /\ UNCHANGED <<apiKey, frames, beyondEngine>>

Next == Call \/ Return

Spec == Init /\ [][Next]_vars

(***************************************************************************)
(* Several invocations at once.  Each worker runs the function in steps:   *)
(* Enter (lines 109-134), GetMatrix (137), Solve (139-178), Finish         *)
(* (180-241), Leave (the caller takes the string).  A thread can be        *)
(* switched out between any two of them; the request to the service and    *)
(* the native solve both release the interpreter.                          *)
(***************************************************************************)
ConcurrentStops ==
    { Visit(<<"Max">>, <<"12 Elm St">>, Coords[1], <<20>>, <<>>),
      Visit(<<>>,      <<>>,            Coords[2], <<>>,   << <<0, 0>> >>) }

ConcurrentInputs ==
    [wrap : {"none"},
     doc : {NotJson, NoKeys}
           \cup {VisitsDoc(l) :
                    l \in UNION {[1..n -> ConcurrentStops] :
                                    n \in 0..MaxConcurrentStops}}]

ConcurrentResponses ==
    {Response("ok", 1337, 400), Response("network_error", 1000, 0)}

InFlight(w) == frames[w].at \in {"parsed", "matrix", "solved"}

Overlaps(w) ==
    frames[w].overlapped \/ \E v \in Workers \ {w} : InFlight(v)

\* all invocations reading the variables of one frame, as they would were
\* the variables kept at module level
Local_Shared(w) == frames[CHOOSE v \in Workers : \A u \in Workers : v <= u]

\* the local variables a statement of invocation w reads: those of its frame
Local(w) == frames[w]

\* the return statement (or the except clause) of invocation w
Returning(w, o) ==
    [frames[w] EXCEPT !.at = "returned", !.out = o,
                      !.overlapped = Overlaps(w)]

\* json.loads and the reading of the stops into the parallel lists
Enter(w) ==
    /\ frames[w].at = "idle"
    /\ \E rd \in ConcurrentInputs :
          LET parsed == JsonLoads(rd)
              st == ReadStops(parsed.data)
              fresh == [IdleFrame EXCEPT !.route_data = rd,
                                         !.overlapped = Overlaps(w)]
          IN  frames' = [frames EXCEPT ![w] =
                  IF ~parsed.ok
                      THEN [fresh EXCEPT !.at = "returned",
                                         !.out = Message("failed", "json")]
                  ELSE IF ~st.ok
                      THEN [fresh EXCEPT !.at = "returned",
                                !.out = Message("failed", "coordinates")]
                  ELSE [fresh EXCEPT !.at = "parsed", !.st = st]]
    /\ UNCHANGED <<apiKey, pc, route_data, service, out, trace, beyondEngine>>

\* distance_matrix = get_walking_distance_matrix(coordinates)
GetMatrix(w) ==
    /\ frames[w].at = "parsed"
    /\ \E resp \in ConcurrentResponses :
          LET gm == get_walking_distance_matrix(apiKey,
                        Local(w).st.coordinates, resp)
          IN  frames' = [frames EXCEPT ![w] =
                  IF gm.raised
                      THEN Returning(w, Message("failed", "api key"))
                      ELSE [@ EXCEPT !.at = "matrix", !.resp = resp,
                                     !.gm = gm,
                                     !.overlapped = Overlaps(w)]]
    /\ UNCHANGED <<apiKey, pc, route_data, service, out, trace, beyondEngine>>

\* the routing model, its callbacks and dimension, SolveWithParameters
Solve(w) ==
    /\ frames[w].at = "matrix"
    /\ LET f == Local(w)
           n == Len(f.st.coordinates)
           dim == Len(f.st.time_windows) > 0
       IN  IF n = 0 \/ CallbackRaises(f.gm.matrix, n)
              THEN \E k \in NativeOutcomes :
                      frames' = [frames EXCEPT ![w] =
                                    Returning(w, Message(k, "native"))]
              ELSE frames' = [frames EXCEPT ![w] =
                      [@ EXCEPT !.at = "solved",
                                !.route = SolveWithParameters(f.gm.matrix, n,
                                              f.st.time_windows, dim),
                                !.overlapped = Overlaps(w)]]
    /\ UNCHANGED <<apiKey, pc, route_data, service, out, trace, beyondEngine>>

\* if solution: ... return json.dumps(...) else: return "No solution found"
Finish(w) ==
    /\ frames[w].at = "solved"
    /\ LET f == Local(w)
       IN  frames' = [frames EXCEPT ![w] =
               Returning(w, IF f.route = <<>>
                               THEN Message("no_solution", "")
                               ELSE Assemble(f.st, f.gm.matrix, f.route))]
    /\ UNCHANGED <<apiKey, pc, route_data, service, out, trace, beyondEngine>>

\* the caller takes the returned string; the frame is gone
Leave(w) ==
    /\ frames[w].at = "returned"
    /\ frames' = [frames EXCEPT ![w] = IdleFrame]
    /\ UNCHANGED <<apiKey, pc, route_data, service, out, trace, beyondEngine>>

NextConcurrent ==
    \E w \in Workers :
        Enter(w) \/ GetMatrix(w) \/ Solve(w) \/ Finish(w) \/ Leave(w)

SpecConcurrent == Init /\ [][NextConcurrent]_vars

(***************************************************************************)
(* Map creation as a state machine.  now is the clock in ticks, saves[t]   *)
(* counts the invocations that saved a map under the name made from        *)
(* timestamp t (2 stands for two or more).                                 *)
(***************************************************************************)
\* one call of create_route_map, from entry to return
CreateRouteMap ==
    /\ map_pc = "idle"
    /\ \E rd \in MapInputs :
          LET result == create_route_map(apiKey, rd, now)
          IN  /\ map_in' = rd
              /\ map_out' = result
              /\ saves' = IF Len(result.path) = 1
                             THEN [saves EXCEPT ![result.path[1]] =
                                       Min(@ + 1, 2)]
                             ELSE saves
    /\ map_pc' = "returned"
    /\ UNCHANGED <<apiKey, beyondMap, now>>

\* the caller takes the returned string; the files stay
MapReturn ==
    /\ map_pc = "returned"
    /\ map_pc' = "idle"
    /\ map_in' = NoMapInput
    /\ map_out' = NoMapResult
    /\ UNCHANGED <<apiKey, beyondMap, now, saves>>

\* the clock advances
Tick ==
    /\ now < MaxTicks
    /\ now' = now + 1
    /\ UNCHANGED <<apiKey, beyondMap, saves, map_pc, map_in, map_out>>

NextMap == CreateRouteMap \/ MapReturn \/ Tick

SpecMap == Init /\ [][NextMap]_vars

(***************************************************************************)
(* Geocoding as a state machine.                                           *)
(***************************************************************************)
\* one call of geocode_addresses, from entry to return or raise
GeocodeAddresses ==
    /\ geo_pc = "idle"
    /\ \E s \in GeoInputs :
         \E answers \in AnswersFor(s) :
            /\ geo_in' = s
            /\ geo_answers' = answers
            /\ geo_out' = geocode_addresses(s, answers)
    /\ geo_pc' = "returned"
    /\ UNCHANGED <<apiKey, beyondGeocode>>

\* the caller takes the returned string or the exception
GeoReturn ==
    /\ geo_pc = "returned"
    /\ geo_pc' = "idle"
    /\ geo_in' = NoGeoInput
    /\ geo_answers' = <<>>
    /\ geo_out' = NoGeoResult
    /\ UNCHANGED <<apiKey, beyondGeocode>>

NextGeocode == GeocodeAddresses \/ GeoReturn

SpecGeocode == Init /\ [][NextGeocode]_vars

(***************************************************************************)
(* One DogWalkerAgent as a state machine: its methods are called one after *)
(* the other, in any order.                                                *)
(***************************************************************************)
\* the call is entered in the history and its outcome becomes the session
Called(event, session) ==
    /\ Len(history) < MaxCalls
    /\ history' = Append(history, event)
    /\ before' = Session(current_result, exported, agent_ret)
    /\ current_result' = session.current_result
    /\ exported' = session.exported
    /\ agent_ret' = session.ret
    /\ UNCHANGED <<apiKey, beyondAgent>>

PlanRoute ==
    \E query \in Queries, response \in AgentResponses :
        Called(CallEvent("plan_route", query, response, <<>>),
               plan_route(current_result, exported, query, response))

GetCurrentResult ==
    Called(CallEvent("get_current_result", "", NoResponse, <<>>),
           get_current_result(current_result, exported))

ExportResultToFile ==
    \E filename \in FilenameArguments :
        Called(CallEvent("export_result_to_file", "", NoResponse, filename),
               export_result_to_file(current_result, exported, filename, now))

Reset ==
    Called(CallEvent("reset", "", NoResponse, <<>>),
           reset(current_result, exported))

NextAgent == PlanRoute \/ GetCurrentResult \/ ExportResultToFile \/ Reset

SpecAgent == Init /\ [][NextAgent]_vars

(***************************************************************************)
(* Vocabulary of the properties.                                           *)
(***************************************************************************)
Returned == pc = "returned"

\* the stops of the request, whichever shape it has
NumStops ==
    IF route_data.doc.kind = "visits" THEN Len(route_data.doc.visits)
    ELSE Len(route_data.doc.coordinates)

\* sum of m[seq[i]][seq[i+1]] over the consecutive pairs of seq
RECURSIVE PairSum(_, _, _)
PairSum(m, seq, i) ==
    IF i >= Len(seq) THEN 0
    ELSE m[seq[i] + 1][seq[i + 1] + 1] + PairSum(m, seq, i + 1)

Asymmetric(m) == \E i, j \in 1..Len(m) : m[i][j] # m[j][i]

(***************************************************************************)
(* C1: a structured result for n >= 1 stops has an optimized_sequence of   *)
(* length n + 1 that starts and ends with the depot 0 and whose first n    *)
(* entries are a permutation of 0..n-1.                                    *)
(***************************************************************************)
C1_ClosedPermutation ==
    (Returned /\ out.kind = "structured" /\ NumStops >= 1) =>
        LET seq == out.optimized_sequence
            n == NumStops
        IN  /\ Len(seq) = n + 1
            /\ seq[1] = 0
            /\ seq[n + 1] = 0
            /\ {seq[k] : k \in 1..n} = 0..(n - 1)

\* a three-stop tour that does not visit the stops in input order
C1_Witness ==
    /\ Returned /\ out.kind = "structured" /\ NumStops = 3
    /\ out.optimized_sequence = <<0, 2, 1, 0>>

(***************************************************************************)
(* C2: in a structured result total_distance_meters is the sum of          *)
(* matrix[tour[i]][tour[i+1]] over all consecutive pairs of                *)
(* optimized_sequence, the closing leg included, for the matrix the call   *)
(* used.                                                                   *)
(***************************************************************************)
C2_TotalIsSumOfLegs ==
    (Returned /\ out.kind = "structured") =>
        out.total_distance_meters =
            PairSum(trace.distance_matrix, out.optimized_sequence, 1)

\* an asymmetric service matrix, three stops, a closing leg that costs
C2_Witness ==
    /\ Returned /\ out.kind = "structured" /\ NumStops = 3
    /\ ~trace.fallback /\ Asymmetric(trace.distance_matrix)
    /\ trace.distance_matrix[out.optimized_sequence[3] + 1][1] > 0

(***************************************************************************)
(* More vocabulary: the request as the caller wrote it.                    *)
(***************************************************************************)
\* a JSON document of one of the two shapes, unwrapped, with a stop in it
ValidRequest ==
    /\ route_data.wrap = "none"
    /\ route_data.doc.kind \in {"visits", "legacy"}
    /\ NumStops >= 1

RequestCoordinates ==
    IF route_data.doc.kind = "visits"
        THEN [k \in 1..NumStops |-> route_data.doc.visits[k].coordinates]
        ELSE route_data.doc.coordinates

\* the window each stop declares, <<>> for none
RequestWindows ==
    IF route_data.doc.kind = "visits"
        THEN [k \in 1..NumStops |->
                Get(route_data.doc.visits[k].time_window, <<>>)]
        ELSE Get(route_data.doc.time_windows, [k \in 1..NumStops |-> <<>>])

NoWindowDeclared == \A k \in 1..NumStops : Len(RequestWindows[k]) = 0

\* every closed tour over n stops, depot first
Routes(n) ==
    {r \in [1..n -> 0..(n - 1)] :
        r[1] = 0 /\ \A a, b \in 1..n : a # b => r[a] # r[b]}

\* Can the stops be reached in route order within their declared windows?
\* Arrival times t with t(next) - t(prev) in [arc, arc + SlackMax], t >= 0,
\* and s*3600 <= t <= e*3600 at a stop declaring [s, e].  lo..hi are the
\* arrival times possible at position k; hi counts only when bounded.
RECURSIVE WindowsMetFrom(_, _, _, _, _, _, _)
WindowsMetFrom(m, tw, route, k, lo, hi, bounded) ==
    IF bounded /\ lo > hi THEN FALSE
    ELSE IF k = Len(route) THEN TRUE
    ELSE LET v == route[k + 1]
             d == m[route[k] + 1][v + 1]
             w == tw[v + 1]
         IN  IF Len(w) = 2
                THEN WindowsMetFrom(m, tw, route, k + 1,
                        Max(lo + d, w[1] * 3600),
                        IF bounded THEN Min(hi + d + SlackMax, w[2] * 3600)
                                   ELSE w[2] * 3600,
                        TRUE)
                ELSE WindowsMetFrom(m, tw, route, k + 1,
                        lo + d, hi + d + SlackMax, bounded)

WindowsMet(m, tw, route) ==
    IF Len(tw[1]) = 2
        THEN WindowsMetFrom(m, tw, route, 1,
                            Max(0, tw[1][1] * 3600), tw[1][2] * 3600, TRUE)
        ELSE WindowsMetFrom(m, tw, route, 1, 0, 0, FALSE)

\* the matrix has an entry for every pair of stops
MatrixFits ==
    /\ Len(trace.distance_matrix) = NumStops
    /\ \A i \in 1..NumStops : Len(trace.distance_matrix[i]) = NumStops

NoTourMeetsWindows ==
    /\ MatrixFits
    /\ \A r \in Routes(NumStops) :
          ~WindowsMet(trace.distance_matrix, RequestWindows, r)

(***************************************************************************)
(* C3: when the remote distance request fails (network error, timeout,     *)
(* non-2xx status, no usable 'distances'), the call still returns a        *)
(* structured result computed from the haversine fallback matrix.  Stated  *)
(* for a request with at least one stop and no declared window, for which  *)
(* nothing but the distance source can stand in the way of a result.       *)
(***************************************************************************)
C3_FallbackYieldsResult ==
    (Returned /\ ValidRequest /\ NoWindowDeclared
        /\ service.kind \in ServiceFailures) =>
        /\ out.kind = "structured"
        /\ trace.distance_matrix = HaversineMatrix(RequestCoordinates)
        /\ out.total_distance_meters =
              PairSum(HaversineMatrix(RequestCoordinates),
                      out.optimized_sequence, 1)

(***************************************************************************)
(* C4: with an empty API key the provider falls back to the haversine      *)
(* matrix like for any other failure of the primary path, and the call     *)
(* returns a structured result rather than a failure message.              *)
(***************************************************************************)
C4_MissingKeyFallsBack ==
    (Returned /\ ValidRequest /\ NoWindowDeclared /\ apiKey = "") =>
        /\ out.kind = "structured"
        /\ trace.distance_matrix = HaversineMatrix(RequestCoordinates)

(***************************************************************************)
(* C5: in a structured result uses_real_streets is true if and only if     *)
(* the matrix came from a successful service response; it is false         *)
(* whenever the haversine fallback matrix was used.                        *)
(***************************************************************************)
C5_RealStreetsFlag ==
    (Returned /\ out.kind = "structured") =>
        (out.uses_real_streets <=> ~trace.fallback)

C7_ThreeShapes ==
    Returned => out.kind \in {"structured", "no_solution", "failed"}

(***************************************************************************)
(* C8: for malformed input (not JSON, or an object with neither 'visits'   *)
(* nor 'coordinates') the call returns a failure message containing        *)
(* 'failed' and no structured result, without contacting the distance      *)
(* service or running the solver.                                          *)
(***************************************************************************)
C8_MalformedFails ==
    (Returned /\ route_data.doc.kind \in {"notjson", "nokeys"}) =>
        /\ out.kind = "failed"
        /\ out.optimized_sequence = <<>>
        /\ ~trace.posted
        /\ ~trace.solved

\* an object without either key, with credentials that would allow the request
C8_Witness ==
    /\ Returned /\ route_data.wrap = "none" /\ route_data.doc.kind = "nokeys"
    /\ apiKey # ""
    /\ out.kind = "failed"

(***************************************************************************)
(* C9: a valid visits payload wrapped in triple backticks is accepted and  *)
(* yields the same structured result as the unwrapped payload.             *)
(***************************************************************************)
Unwrapped == [wrap |-> "none", doc |-> route_data.doc]

C9_BackticksAccepted ==
    (/\ Returned /\ route_data.wrap = "backticks"
     /\ route_data.doc.kind = "visits"
     /\ \E resp \in Responses :
          \E r \in optimize_dog_walking_route(apiKey, Unwrapped, resp) :
             r.out.kind = "structured") =>
        /\ out.kind = "structured"
        /\ \E resp \in Responses :
             \E r \in optimize_dog_walking_route(apiKey, Unwrapped, resp) :
                r.out = out

(***************************************************************************)
(* C10: the legacy flat shape of the same stops, with the same distance    *)
(* source, gives the same kind of outcome as the visits shape and, when    *)
(* structured, the same optimized_sequence, total_distance_meters and      *)
(* timing fields.                                                          *)
(***************************************************************************)
SameRoute(a, b) ==
    /\ a.kind = b.kind
    /\ a.optimized_sequence = b.optimized_sequence
    /\ a.total_distance_meters = b.total_distance_meters
    /\ a.estimated_time_hours_x100 = b.estimated_time_hours_x100
    /\ a.walking_time_minutes_x10 = b.walking_time_minutes_x10
    /\ a.visit_time_minutes = b.visit_time_minutes

C10_LegacyEquivalent ==
    (Returned /\ ValidRequest /\ route_data.doc.kind = "visits") =>
        \A r \in optimize_dog_walking_route(apiKey,
                    [wrap |-> "none",
                     doc |-> LegacyDoc(route_data.doc.visits, FALSE)],
                    service) :
            SameRoute(r.out, out)

(***************************************************************************)
(* C11: the Time dimension (slack 1800, horizon 43200) is imposed only     *)
(* when at least one stop declares a time window; a request in which no    *)
(* stop declares one is solved under the closed-tour requirement alone and *)
(* gets a structured result from whatever matrix the call obtained,        *)
(* however long the tour.  Stated by what the caller sees: such a request, *)
(* once the solver runs on its matrix, ends in a structured result.        *)
(***************************************************************************)
C11_DimensionOnlyWithWindows ==
    (Returned /\ ValidRequest /\ NoWindowDeclared /\ trace.solved) =>
        out.kind = "structured"

(***************************************************************************)
(* C12: a structured result is a tour that can be walked so that every     *)
(* stop declaring a window [s, e] is reached at a cumulative time within   *)
(* [s*3600, e*3600], times being the arc costs taken as seconds plus a     *)
(* wait of at most 1800 s per step, visit durations not counted; a stop    *)
(* without a window bounds nothing.                                        *)
(***************************************************************************)
TourOf(seq) == SubSeq(seq, 1, Len(seq) - 1)

C12_WindowsHonoured ==
    (Returned /\ out.kind = "structured") =>
        WindowsMet(trace.distance_matrix, RequestWindows,
                   TourOf(out.optimized_sequence))

\* three stops, the depot and a later stop both declaring a window, and a
\* tour that is not the input order
C12_Witness ==
    /\ Returned /\ out.kind = "structured" /\ NumStops = 3
    /\ Len(RequestWindows[1]) = 2
    /\ \E k \in 2..3 :
          Len(RequestWindows[k]) = 2 /\ RequestWindows[k] # RequestWindows[1]
    /\ out.optimized_sequence = <<0, 2, 1, 0>>

(***************************************************************************)
(* More vocabulary: what the request says about stop k (1-based input      *)
(* position), with the documented reading of a field that is left out.     *)
(***************************************************************************)
RequestName(k) ==
    IF route_data.doc.kind = "visits"
        THEN IF Len(route_data.doc.visits[k].pet_name) = 1
                THEN route_data.doc.visits[k].pet_name[1]
                ELSE PetLabel(k)
        ELSE PetLabel(k)

RequestAddress(k) ==
    IF route_data.doc.kind = "visits"
        THEN IF Len(route_data.doc.visits[k].address) = 1
                THEN route_data.doc.visits[k].address[1]
                ELSE ""
        ELSE IF Len(route_data.doc.addresses) = 1
                THEN route_data.doc.addresses[1][k]
                ELSE ""

RequestDuration(k) ==
    IF route_data.doc.kind = "visits"
        THEN IF Len(route_data.doc.visits[k].duration) = 1
                THEN route_data.doc.visits[k].duration[1]
                ELSE 30
        ELSE IF Len(route_data.doc.durations) = 1
                THEN route_data.doc.durations[1][k]
                ELSE 30

Abs(x) == IF x >= 0 THEN x ELSE -x

RECURSIVE RequestDurationSum(_)
RequestDurationSum(k) ==
    IF k = 0 THEN 0 ELSE RequestDuration(k) + RequestDurationSum(k - 1)

C14_TimingFields ==
    (Returned /\ out.kind = "structured") =>
        LET total == out.total_distance_meters
            visit == out.visit_time_minutes
        IN  /\ visit = RequestDurationSum(NumStops)
            \* |walking - total / 83.33| <= 0.05
            /\ 2 * Abs(out.walking_time_minutes_x10 * 8333 - total * 1000)
                  <= 8333
            \* |hours - (total / 83.33 + visit) / 60| <= 0.005
            /\ 2 * Abs(out.estimated_time_hours_x100 * 8333 * 3
                        - (total * 100 + visit * 8333) * 5)
                  <= 8333 * 3

\* three stops, one of them without a duration, a walk of more than an hour
C14_Witness ==
    /\ Returned /\ out.kind = "structured" /\ NumStops = 3
    /\ route_data.doc.kind = "visits"
    /\ \E k \in 1..3 : Len(route_data.doc.visits[k].duration) = 0
    /\ \E k \in 1..3 : Len(route_data.doc.visits[k].duration) = 1
    /\ out.walking_time_minutes_x10 > 600
    /\ out.estimated_time_hours_x100 > 200

(***************************************************************************)
(* C15: every matrix the haversine fallback produces is symmetric with a   *)
(* zero diagonal: matrix[i][i] = 0 and matrix[i][j] = matrix[j][i] for all *)
(* i, j, whatever the coordinates, repeated coordinates included.          *)
(***************************************************************************)
C15_FallbackSymmetric ==
    (Returned /\ trace.fallback) =>
        LET m == trace.distance_matrix
        IN  /\ Len(m) = Len(trace.coordinates)
            /\ \A i \in 1..Len(m) :
                  /\ Len(m[i]) = Len(m)
                  /\ m[i][i] = 0
                  /\ \A j \in 1..Len(m) : m[i][j] = m[j][i]

\* a fallback matrix for three stops, two of them at the same coordinates
\* and the third elsewhere
C15_Witness ==
    /\ Returned /\ trace.fallback /\ Len(trace.distance_matrix) = 3
    /\ \E a, b, c \in 1..3 :
          /\ a # b
          /\ trace.coordinates[a] = trace.coordinates[b]
          /\ trace.distance_matrix[a][b] = 0
          /\ trace.distance_matrix[a][c] > 0
          /\ trace.distance_matrix[c][b] > 0

(***************************************************************************)
(* C19: every matrix get_walking_distance_matrix returns for n             *)
(* coordinates, from the service or from the fallback, is n x n with       *)
(* non-negative entries and a zero diagonal; a service response of another *)
(* shape never reaches the solver.                                         *)
(***************************************************************************)
C19_MatrixWellFormed ==
    (Returned /\ trace.posted) =>
        LET m == trace.distance_matrix
            n == Len(trace.coordinates)
        IN  /\ Len(m) = n
            /\ \A i \in 1..Len(m) :
                  /\ Len(m[i]) = n
                  /\ \A j \in 1..Len(m[i]) : m[i][j] >= 0
                  /\ i <= Len(m[i]) => m[i][i] = 0

(***************************************************************************)
(* C16: for a request with exactly one stop the distance matrix is the     *)
(* 1 x 1 zero matrix on either path of the provider, and the result is     *)
(* structured with optimized_sequence [0, 0], total_distance_meters 0, one *)
(* visit record and one location record.  Stated for a stop that declares  *)
(* no window and for a service that, when asked, fails or answers with a   *)
(* matrix of the right shape.                                              *)
(***************************************************************************)
C16_SingleStop ==
    (Returned /\ ValidRequest /\ NumStops = 1 /\ NoWindowDeclared
        /\ service.kind # "ok_short") =>
        /\ trace.distance_matrix = << <<0>> >>
        /\ out.kind = "structured"
        /\ out.optimized_sequence = <<0, 0>>
        /\ out.total_distance_meters = 0
        /\ Len(out.visit_order) = 1
        /\ Len(out.locations_for_map) = 1

(***************************************************************************)
(* C20: optional fields of a visit take their documented defaults.  A      *)
(* visit without duration counts 30 minutes in its records and in          *)
(* visit_time_minutes, a visit without address is reported with the empty  *)
(* string, a visit without pet_name is reported as 'Pet k', k its 1-based  *)
(* input position, and a visit without time_window has no window bound:    *)
(* when the solver finds no tour, none exists that respects the windows    *)
(* the other visits declare.                                               *)
(***************************************************************************)
Lacks(k, field) ==
    Len(route_data.doc.visits[k][field]) = 0

RECURSIVE GivenDurationSum(_)
GivenDurationSum(k) ==
    IF k = 0 THEN 0
    ELSE (IF Lacks(k, "duration") THEN 0
          ELSE route_data.doc.visits[k].duration[1])
         + GivenDurationSum(k - 1)

C20_Defaults ==
    (Returned /\ route_data.doc.kind = "visits") =>
        /\ out.kind = "structured" =>
              /\ \A i \in 1..NumStops :
                    LET k == out.optimized_sequence[i] + 1
                        vo == out.visit_order[i]
                        lm == out.locations_for_map[i]
                    IN  /\ Lacks(k, "duration") =>
                              vo.duration_minutes = 30 /\ lm.duration = 30
                        /\ Lacks(k, "address") =>
                              vo.address = "" /\ lm.address = ""
                        /\ Lacks(k, "pet_name") =>
                              /\ vo.pet_name = PetLabel(k)
                              /\ lm.pet_name = PetLabel(k)
              /\ out.visit_time_minutes =
                    GivenDurationSum(NumStops)
                    + 30 * Cardinality({k \in 1..NumStops :
                                            Lacks(k, "duration")})
        /\ (out.kind = "no_solution" /\ MatrixFits) =>
              \A r \in Routes(NumStops) :
                  ~Feasible(trace.distance_matrix, RequestWindows, TRUE, r)

\* three visits, the second of the tour with none of the optional fields and
\* not the first of the input, another one with all of them
C20_Witness ==
    /\ Returned /\ route_data.doc.kind = "visits"
    /\ out.kind = "structured" /\ NumStops = 3
    /\ LET k == out.optimized_sequence[2] + 1
       IN  /\ k = 3
           /\ Lacks(k, "duration") /\ Lacks(k, "address")
           /\ Lacks(k, "pet_name") /\ Lacks(k, "time_window")
           /\ out.visit_order[2].pet_name = "Pet 3"
    /\ \E j \in 1..3 :
          ~Lacks(j, "duration") /\ ~Lacks(j, "address")
          /\ ~Lacks(j, "pet_name") /\ ~Lacks(j, "time_window")

(***************************************************************************)
(* Vocabulary for several invocations: the results an invocation can       *)
(* return when it runs alone, from entry to return, on its argument and    *)
(* with the answer the service gave it.                                    *)
(***************************************************************************)
AloneResults(w) ==
    {r.out : r \in optimize_dog_walking_route(apiKey, frames[w].route_data,
                                              frames[w].resp)}

HasReturned(w) == frames[w].at = "returned"

C18_Isolated ==
    \A w \in Workers :
        HasReturned(w) => frames[w].out \in AloneResults(w)

\* two invocations of different requests that overlapped, one returned with
\* a tour and the other with 'No solution found'
C18_Witness ==
    \E v, w \in Workers :
        /\ HasReturned(v) /\ HasReturned(w)
        /\ frames[v].overlapped /\ frames[w].overlapped
        /\ frames[v].route_data # frames[w].route_data
        /\ frames[v].out.kind = "structured"
        /\ Len(frames[v].out.visit_order) = 2
        /\ frames[w].out.kind = "no_solution"

(***************************************************************************)
(* Vocabulary for create_route_map.                                        *)
(***************************************************************************)
MapReturned == map_pc = "returned"

\* the phrases of interest each returned text contains
PhrasesOf(text) ==
    IF text = "Map saved to: " THEN {"Map saved to:"}
    ELSE IF text = "Error: No locations provided"
        THEN {"Error", "No locations", "No locations provided"}
    ELSE IF text = "Map creation failed: " THEN {"Map creation failed"}
    ELSE {}

Contains(text, phrase) == phrase \in PhrasesOf(text)

MapSaved == Len(map_out.path) = 1

(***************************************************************************)
(* C21: given JSON without a locations_for_map key (for example only an    *)
(* optimized_sequence), create_route_map returns an error message that     *)
(* contains both 'Error' and 'No locations_for_map', and saves no map      *)
(* file.                                                                   *)
(***************************************************************************)
C21_NoLocationsForMap ==
    (/\ MapReturned /\ map_in.wrap = "none" /\ map_in.doc.kind = "object"
     /\ Len(map_in.doc.locations_for_map) = 0) =>
        /\ Contains(map_out.text, "Error")
        /\ Contains(map_out.text, "No locations_for_map")
        /\ ~MapSaved

\* a valid route document: a JSON object with a non-empty locations_for_map
ValidRouteDoc(doc) ==
    doc.kind = "object" /\ Len(doc.locations_for_map) = 1
        /\ Len(doc.locations_for_map[1]) >= 1

(***************************************************************************)
(* C22: create_route_map tolerates wrapping around the JSON payload: a     *)
(* valid route JSON preceded by natural-language text, or wrapped in       *)
(* triple backticks, produces a saved map ('Map saved to: ...') just as    *)
(* the bare JSON does.                                                     *)
(***************************************************************************)
C22_WrappingTolerated ==
    (MapReturned /\ ValidRouteDoc(map_in.doc)) =>
        /\ Contains(map_out.text, "Map saved to:")
        /\ MapSaved

(***************************************************************************)
(* Vocabulary for geocode_addresses.                                       *)
(***************************************************************************)
GeoReturned == geo_pc = "returned"

\* the input is a list of addresses, in JSON or in Python notation
GivenList == geo_in.format \in ListFormats

\* neither json.loads nor ast.literal_eval accepts the input
Unparsable ==
    Strip(geo_in).format \in {"invalid_text", "bare_text", "unhashable_key"}

HasCoordinatesEntry(e) ==
    Len(e.latitude) = 1 /\ Len(e.longitude) = 1 /\ Len(e.error) = 0

HasErrorEntry(e) ==
    Len(e.error) = 1 /\ Len(e.latitude) = 0 /\ Len(e.longitude) = 0

LookupFailed(i) == geo_answers[i] \in {"empty", "raises"}

(***************************************************************************)
(* C23: geocode_addresses returns a JSON array with exactly one entry per  *)
(* input address, in input order, each entry carrying either latitude and  *)
(* longitude or an 'error' field; a failed or empty lookup for one address *)
(* yields an error entry for that address only and does not stop the       *)
(* remaining addresses from being looked up; unparsable input yields a     *)
(* single 'Invalid format' error entry.                                    *)
(***************************************************************************)
C23_OneEntryPerAddress ==
    GeoReturned =>
        /\ GivenList =>
              /\ geo_out.kind = "json"
              /\ Len(geo_out.entries) = Len(geo_in.items)
              /\ \A i \in 1..Len(geo_in.items) :
                    LET e == geo_out.entries[i]
                    IN  /\ e.address = Str(geo_in.items[i])
                        /\ HasCoordinatesEntry(e) \/ HasErrorEntry(e)
                        /\ HasErrorEntry(e) <=> LookupFailed(i)
        /\ Unparsable =>
              /\ geo_out.kind = "json"
              /\ Len(geo_out.entries) = 1
              /\ geo_out.entries[1].error = <<"Invalid format">>

(***************************************************************************)
(* C24: the matrix used for a solve never mixes sources.  If any part of   *)
(* the service response is unusable (no 'distances', a null entry in a     *)
(* row), every entry of the returned matrix is the haversine value;        *)
(* otherwise every entry is the service value.  No entry of a partially    *)
(* parsed service matrix survives into the fallback matrix.                *)
(***************************************************************************)
C24_OneSourcePerMatrix ==
    (Returned /\ trace.posted) =>
        LET m == trace.distance_matrix
            c == trace.coordinates
            d == ServiceDistances(service, c)
        IN  IF service.kind \in ServiceFailures
                THEN /\ Len(m) = Len(c)
                     /\ \A i \in 1..Len(m) :
                           /\ Len(m[i]) = Len(c)
                           /\ \A j \in 1..Len(c) :
                                 m[i][j] = IF i = j THEN 0
                                           ELSE calculate_distance_m(c[i], c[j])
                ELSE /\ Len(m) = Len(d)
                     /\ \A i \in 1..Len(m) :
                           /\ Len(m[i]) = Len(d[i])
                           /\ \A j \in 1..Len(d[i]) :
                                 m[i][j] = PyInt(d[i][j])

\* a response for three stops with a null entry in its last row, whose
\* first row holds a street distance that differs from the haversine value
C24_Witness ==
    /\ Returned /\ trace.posted /\ service.kind = "null_entry"
    /\ Len(trace.coordinates) = 3
    /\ PyInt(ServiceDistances(service, trace.coordinates)[1][2])
          # calculate_distance_m(trace.coordinates[1], trace.coordinates[2])
    /\ trace.distance_matrix[1][2]
          = calculate_distance_m(trace.coordinates[1], trace.coordinates[2])

\* the step from position k of seq takes a cheapest arc to an unvisited stop
CheapestStep(m, seq, k) ==
    \A u \in (0..(Len(m) - 1)) \ {seq[h] : h \in 1..k} :
        ArcCost(m, seq[k], seq[k + 1]) <= ArcCost(m, seq[k], u)

(***************************************************************************)
(* C25: the returned tour is the one built by the cheapest-arc             *)
(* construction heuristic alone, with no local-search improvement applied  *)
(* afterwards: starting at the depot, each next stop is the unvisited stop *)
(* with the lowest arc cost from the current stop, and the tour closes     *)
(* back to the depot.                                                      *)
(***************************************************************************)
C25_CheapestArcAlone ==
    (Returned /\ out.kind = "structured" /\ NumStops >= 1) =>
        LET seq == out.optimized_sequence
            n == NumStops
        IN  /\ seq[1] = 0
            /\ seq[n + 1] = 0
            /\ \A k \in 1..(n - 1) : CheapestStep(trace.distance_matrix, seq, k)

(***************************************************************************)
(* C26: given locations_for_map with n >= 1 records, create_route_map      *)
(* consumes them in the given order: it draws exactly n route segments,    *)
(* segment i going from record i to record i+1 and the last one going from *)
(* record n-1 back to record 0 and marked as the return-home segment, and  *)
(* it places exactly n markers, one per record, numbered 1..n in list      *)
(* order with only stop 1 coloured green.  (Records are counted from 0 in  *)
(* the claim and from 1 in the sequences below.)                           *)
(***************************************************************************)
C26_RecordsDrawnInOrder ==
    (/\ MapReturned /\ map_in.wrap = "none" /\ map_in.doc.kind = "object"
     /\ HasLocationsForMap(map_in.doc)
     /\ Len(map_in.doc.locations_for_map[1]) >= 1) =>
        LET records == map_in.doc.locations_for_map[1]
            n == Len(records)
            segments == map_out.map.segments
            markers == map_out.map.markers
        IN  /\ MapSaved
            /\ Len(segments) = n
            /\ \A i \in 1..(n - 1) :
                  /\ segments[i].start = PointOfRecord(records[i])
                  /\ segments[i].end = PointOfRecord(records[i + 1])
                  /\ ~segments[i].is_return_home
            /\ segments[n].start = PointOfRecord(records[n])
            /\ segments[n].end = PointOfRecord(records[1])
            /\ segments[n].is_return_home
            /\ Len(markers) = n
            /\ \A c \in 1..n :
                  /\ markers[c].location = PointOfRecord(records[c])
                  /\ markers[c].stop_number = c
                  /\ markers[c].color = "green" <=> c = 1

\* a saved map of three records, two of them at different places
C26_Witness ==
    /\ MapReturned /\ MapSaved
    /\ HasLocationsForMap(map_in.doc)
    /\ Len(map_in.doc.locations_for_map[1]) = 3
    /\ Len(map_out.map.segments) = 3
    /\ map_out.map.segments[1].start # map_out.map.segments[1].end
    /\ map_out.map.markers[3].color = "blue"

(***************************************************************************)
(* Vocabulary for DogWalkerAgent.                                          *)
(***************************************************************************)
Completed(e) == e.op = "plan_route" /\ ~e.response.raised

\* the most recent plan_route call of h that completed since the last
\* reset: a sequence holding that call, or the empty sequence
RECURSIVE LatestCompletedPlan(_)
LatestCompletedPlan(h) ==
    IF Len(h) = 0 THEN <<>>
    ELSE LET e == h[Len(h)]
         IN  IF e.op = "reset" THEN <<>>
             ELSE IF Completed(e) THEN <<e>>
             ELSE LatestCompletedPlan(SubSeq(h, 1, Len(h) - 1))

\* r is the result plan_route built in call e
ResultOfCall(r, e) ==
    /\ Len(r) = 1
    /\ r[1].query = e.query
    /\ r[1].final_answer = e.response.output
    /\ r[1].agent_output = e.response.output

LastCall == history[Len(history)]

(***************************************************************************)
(* C27: after any sequence of plan_route and reset calls on a              *)
(* DogWalkerAgent, get_current_result returns the result of the most       *)
(* recent plan_route call that completed since the last reset, and None if *)
(* there is none; a plan_route call that raises leaves current_result      *)
(* unchanged, so the result stored by an earlier query remains the current *)
(* one.                                                                    *)
(***************************************************************************)
C27_CurrentIsLatestCompleted ==
    LET latest == LatestCompletedPlan(history)
    IN  /\ Len(latest) = 0 => current_result = None
        /\ Len(latest) = 1 => ResultOfCall(current_result, latest[1])
        /\ (Len(history) > 0 /\ LastCall.op = "get_current_result") =>
              /\ agent_ret.kind = "returned"
              /\ Len(latest) = 0 => agent_ret.result = None
              /\ Len(latest) = 1 => ResultOfCall(agent_ret.result, latest[1])
        /\ (Len(history) > 0 /\ LastCall.op = "plan_route"
                /\ LastCall.response.raised) =>
              /\ agent_ret.kind = "raised"
              /\ current_result = before.current_result

\* a query that completed, a second query that raised, and then
\* get_current_result returning the result of the first
C27_Witness ==
    /\ Len(history) = 3
    /\ Completed(history[1])
    /\ history[2].op = "plan_route" /\ history[2].response.raised
    /\ history[2].query # history[1].query
    /\ history[3].op = "get_current_result"
    /\ ResultOfCall(agent_ret.result, history[1])

(***************************************************************************)
(* C28: export_result_to_file raises ValueError('No result to export') and *)
(* writes no file exactly when the agent holds no current result (before   *)
(* the first completed plan_route, or after reset with no later completed  *)
(* plan_route); otherwise it writes the current result's fields and        *)
(* returns the file path, leaving current_result unchanged.                *)
(***************************************************************************)
C28_ExportNeedsResult ==
    (Len(history) > 0 /\ LastCall.op = "export_result_to_file") =>
        LET earlier == SubSeq(history, 1, Len(history) - 1)
            held == before.current_result
        IN  /\ held = None <=> Len(LatestCompletedPlan(earlier)) = 0
            /\ current_result = held
            /\ IF held = None
                  THEN /\ agent_ret.kind = "raised"
                       /\ agent_ret.message = "No result to export"
                       /\ exported = before.exported
                  ELSE /\ agent_ret.kind = "returned"
                       /\ Len(agent_ret.path) = 1
                       /\ agent_ret.path[1].given = LastCall.filename
                       /\ Len(LastCall.filename) = 0 =>
                             Len(agent_ret.path[1].stamp) = 1
                       /\ \A f \in FileNames :
                             IF f = agent_ret.path[1]
                                THEN /\ Len(exported[f]) = 1
                                     /\ exported[f][1].query = held[1].query
                                     /\ exported[f][1].final_answer
                                            = held[1].final_answer
                                     /\ exported[f][1].addresses
                                            = held[1].addresses
                                     /\ exported[f][1].geocoded_locations
                                            = held[1].geocoded_locations
                                     /\ exported[f][1].weather_assessment
                                            = held[1].weather_assessment
                                     /\ exported[f][1].optimized_route
                                            = held[1].optimized_route
                                ELSE exported[f] = before.exported[f]

\* a completed query, a reset, and then an export that raises
C28_Witness ==
    /\ Len(history) = 3
    /\ Completed(history[1])
    /\ history[2].op = "reset"
    /\ history[3].op = "export_result_to_file"
    /\ agent_ret.kind = "raised"
    /\ agent_ret.message = "No result to export"

\* some stop declares a window that starts after hour 12
LateWindowDeclared ==
    \E k \in 1..NumStops :
        /\ Len(RequestWindows[k]) = 2
        /\ RequestWindows[k][1] * 3600 > Horizon

(***************************************************************************)
(* C29: whenever the time dimension is imposed, the 43200 s horizon bounds *)
(* every cumulative time of the tour including the arrival back at the     *)
(* depot: every structured result then has total_distance_meters <= 43200, *)
(* and a request in which some stop's window starts after hour 12          *)
(* (start_hour * 3600 > 43200) always ends in a non-structured outcome     *)
(* ('No solution found' or a failure string), whatever the distances.      *)
(***************************************************************************)
C29_HorizonBoundsTour ==
    Returned =>
        /\ (out.kind = "structured" /\ trace.time_dimension) =>
              out.total_distance_meters <= Horizon
        /\ (ValidRequest /\ LateWindowDeclared) =>
              /\ out.kind # "structured"
              /\ service.kind # "ok_short" =>
                    out.kind \in {"no_solution", "failed"}

\* a call that imposed the dimension on a request with a window starting at
\* hour 13 and distances that would fit the horizon, and found no solution
C29_Witness ==
    /\ Returned /\ ValidRequest /\ LateWindowDeclared
    /\ trace.time_dimension /\ trace.solved
    /\ NumStops = 2
    /\ RouteCost(trace.distance_matrix, <<0, 1>>, 1) <= Horizon
    /\ out.kind = "no_solution"

(***************************************************************************)
(* C30: every successful create_route_map invocation saves its map to a    *)
(* file of its own: two invocations that both return 'Map saved to:        *)
(* <path>', one after the other within the same second or concurrently,    *)
(* return distinct paths and neither overwrites the other's file, so the   *)
(* newest route_map_*.html is the map of the request just planned.         *)
(***************************************************************************)
C30_OwnFilePerMap ==
    \A stamp \in Timestamps : saves[stamp] <= 1

====
